---- MODULE Spec2Model ----
(***************************************************************************)
(* ComplyZombie: the Lambda compliance scanner.  The model covers the      *)
(* Framework Scorer (calculate_framework_scores), the Critical-Finding     *)
(* Classifier (identify_critical_findings), the four resource checkers     *)
(* and the orchestration in lambda_handler.                                 *)
(*                                                                         *)
(* Conventions.                                                            *)
(*  - A Python dict is a TLA+ record; a key the dict lacks is a field the   *)
(*    record lacks ("k" \in DOMAIN d models `k in d`).                      *)
(*  - A Python list is a sequence.  The value of a finding's 'frameworks'  *)
(*    key may be a list or a str, so it carries its type: PyList / PyStr.  *)
(*  - A score is kept in hundredths: 5000 stands for 50.0, 1 for 0.01.     *)
(*  - A str is a TLA+ string; Chars gives its characters, one per element, *)
(*    so that lower() and the `in` substring test are computed.            *)
(*  - Wall-clock values (timestamp, scan_time, the report key) are left    *)
(*    out: no decision of the program reads them.                          *)
(***************************************************************************)
EXTENDS Integers, Sequences, FiniteSets, TLC

VARIABLES
    pc,                 \* position of the running function
    all_controls,       \* lambda_handler: the aggregated findings; the Scorer's and Classifier's input
    frameworks,         \* calculate_framework_scores: the dict of tallies, in insertion order
    framework_scores,   \* the Scorer's result
    critical_findings,  \* the Classifier's result
    iam_report,         \* lambda_handler locals: the four checker reports
    s3_report,
    ec2_report,
    cloudtrail_report,
    s3_output,          \* run_s3_compliance_checks: its local `output`
    overall_score,      \* lambda_handler: overall_score (hundredths)
    scanned,            \* calculate_framework_scores: controls consumed by its loop
    put_calls,          \* number of s3_client.put_object calls made
    error,              \* the exception in flight or caught, "None" if none
    response,           \* the handler's return value: statusCode, or "None"
    risk_level,         \* lambda_handler: executive_summary['risk_level'], "None" before it is computed
    answers,            \* a checker run on its own: what the cloud API answered
    local_write,        \* a checker run on its own: what became of its local file write
    api_calls,          \* a checker run on its own: the API calls it attempted, in order
    handler_calls       \* lambda_handler: the checker calls and report writes it made, in order

vars == << pc, all_controls, frameworks, framework_scores, critical_findings,
           iam_report, s3_report, ec2_report, cloudtrail_report, s3_output,
           overall_score, scanned, put_calls, error, response,
           risk_level, answers, local_write, api_calls, handler_calls >>

\* Python's None and the empty dict, told apart from every dict the code builds
None == [type |-> "NoneType"]

EmptyDict == [type |-> "dict"]

NoError == "None"

PyList(s) == [type |-> "list", value |-> s]

PyStr(s) == [type |-> "str", value |-> s]

(***************************************************************************)
(* Bounds of the model.                                                    *)
(***************************************************************************)
MaxLen == 3

MaxScanned == 20001

MaxPassed == 1

MaxBuckets == 1

MaxGroups == 1

MaxTrails == 1

MaxControls == 1

(***************************************************************************)
(* Text.                                                                   *)
(***************************************************************************)
Upper == <<"A","B","C","D","E","F","G","H","I","J","K","L","M",
           "N","O","P","Q","R","S","T","U","V","W","X","Y","Z">>

Lowercase == <<"a","b","c","d","e","f","g","h","i","j","k","l","m",
               "n","o","p","q","r","s","t","u","v","w","x","y","z">>

LowerChar(c) ==
    IF \E i \in 1..Len(Upper) : Upper[i] = c
    THEN Lowercase[CHOOSE i \in 1..Len(Upper) : Upper[i] = c]
    ELSE c

\* Lower without the conversion.
LowerSkipped(text) == text

Lower(text) == [i \in 1..Len(text) |-> LowerChar(text[i])]

Contains(text, keyword) ==
    \E i \in 0..(Len(text) - Len(keyword)) :
        \A j \in 1..Len(keyword) : text[i + j] = keyword[j]

Chars(s) ==
    CASE s = "Root account has MFA enabled" ->
           <<"R","o","o","t"," ","a","c","c","o","u","n","t"," ","h","a","s"," ","M","F","A"," ","e","n","a","b","l","e","d">>
      [] s = "Root account does not have MFA enabled - HIGH RISK" ->
           <<"R","o","o","t"," ","a","c","c","o","u","n","t"," ","d","o","e","s"," ","n","o","t"," ","h","a","v","e"," ","M","F","A"," ","e","n","a","b","l","e","d"," ","-"," ","H","I","G","H"," ","R","I","S","K">>
      [] s = "Root account shows no recent usage" ->
           <<"R","o","o","t"," ","a","c","c","o","u","n","t"," ","s","h","o","w","s"," ","n","o"," ","r","e","c","e","n","t"," ","u","s","a","g","e">>
      [] s = "Root account was used on 2024-01-01" ->
           <<"R","o","o","t"," ","a","c","c","o","u","n","t"," ","w","a","s"," ","u","s","e","d"," ","o","n"," ","2","0","2","4","-","0","1","-","0","1">>
      [] s = "All IAM users with console access have MFA" ->
           <<"A","l","l"," ","I","A","M"," ","u","s","e","r","s"," ","w","i","t","h"," ","c","o","n","s","o","l","e"," ","a","c","c","e","s","s"," ","h","a","v","e"," ","M","F","A">>
      [] s = "1 users without MFA: alice" ->
           <<"1"," ","u","s","e","r","s"," ","w","i","t","h","o","u","t"," ","M","F","A",":"," ","a","l","i","c","e">>
      [] s = "Password policy meets security standards" ->
           <<"P","a","s","s","w","o","r","d"," ","p","o","l","i","c","y"," ","m","e","e","t","s"," ","s","e","c","u","r","i","t","y"," ","s","t","a","n","d","a","r","d","s">>
      [] s = "Issues: Numbers not required" ->
           <<"I","s","s","u","e","s",":"," ","N","u","m","b","e","r","s"," ","n","o","t"," ","r","e","q","u","i","r","e","d">>
      [] s = "No account password policy exists" ->
           <<"N","o"," ","a","c","c","o","u","n","t"," ","p","a","s","s","w","o","r","d"," ","p","o","l","i","c","y"," ","e","x","i","s","t","s">>
      [] s = "Encryption enabled" ->
           <<"E","n","c","r","y","p","t","i","o","n"," ","e","n","a","b","l","e","d">>
      [] s = "No encryption configured" ->
           <<"N","o"," ","e","n","c","r","y","p","t","i","o","n"," ","c","o","n","f","i","g","u","r","e","d">>
      [] s = "Error checking encryption: AccessDenied" ->
           <<"E","r","r","o","r"," ","c","h","e","c","k","i","n","g"," ","e","n","c","r","y","p","t","i","o","n",":"," ","A","c","c","e","s","s","D","e","n","i","e","d">>
      [] s = "All public access blocked" ->
           <<"A","l","l"," ","p","u","b","l","i","c"," ","a","c","c","e","s","s"," ","b","l","o","c","k","e","d">>
      [] s = "Issues: BlockPublicAcls=False" ->
           <<"I","s","s","u","e","s",":"," ","B","l","o","c","k","P","u","b","l","i","c","A","c","l","s","=","F","a","l","s","e">>
      [] s = "No public access block configured (RISK!)" ->
           <<"N","o"," ","p","u","b","l","i","c"," ","a","c","c","e","s","s"," ","b","l","o","c","k"," ","c","o","n","f","i","g","u","r","e","d"," ","(","R","I","S","K","!",")">>
      [] s = "Error: AccessDenied" ->
           <<"E","r","r","o","r",":"," ","A","c","c","e","s","s","D","e","n","i","e","d">>
      [] s = "Versioning enabled" ->
           <<"V","e","r","s","i","o","n","i","n","g"," ","e","n","a","b","l","e","d">>
      [] s = "Versioning is Disabled" ->
           <<"V","e","r","s","i","o","n","i","n","g"," ","i","s"," ","D","i","s","a","b","l","e","d">>
      [] s = "Logging to logs" ->
           <<"L","o","g","g","i","n","g"," ","t","o"," ","l","o","g","s">>
      [] s = "No logging configured" ->
           <<"N","o"," ","l","o","g","g","i","n","g"," ","c","o","n","f","i","g","u","r","e","d">>
      [] s = "No rules allow access from 0.0.0.0/0" ->
           <<"N","o"," ","r","u","l","e","s"," ","a","l","l","o","w"," ","a","c","c","e","s","s"," ","f","r","o","m"," ","0",".","0",".","0",".","0","/","0">>
      [] s = "1 rules allow access from anywhere: 22-22" ->
           <<"1"," ","r","u","l","e","s"," ","a","l","l","o","w"," ","a","c","c","e","s","s"," ","f","r","o","m"," ","a","n","y","w","h","e","r","e",":"," ","2","2","-","2","2">>
      [] s = "Outbound traffic is controlled" ->
           <<"O","u","t","b","o","u","n","d"," ","t","r","a","f","f","i","c"," ","i","s"," ","c","o","n","t","r","o","l","l","e","d">>
      [] s = "1 rules allow traffic to anywhere" ->
           <<"1"," ","r","u","l","e","s"," ","a","l","l","o","w"," ","t","r","a","f","f","i","c"," ","t","o"," ","a","n","y","w","h","e","r","e">>
      [] s = "No CloudTrail trails exist - audit logging is disabled" ->
           <<"N","o"," ","C","l","o","u","d","T","r","a","i","l"," ","t","r","a","i","l","s"," ","e","x","i","s","t"," ","-"," ","a","u","d","i","t"," ","l","o","g","g","i","n","g"," ","i","s"," ","d","i","s","a","b","l","e","d">>
      [] s = "CloudTrail is enabled and properly configured" ->
           <<"C","l","o","u","d","T","r","a","i","l"," ","i","s"," ","e","n","a","b","l","e","d"," ","a","n","d"," ","p","r","o","p","e","r","l","y"," ","c","o","n","f","i","g","u","r","e","d">>
      [] s = "Issues: Trail is not logging, Not multi-region" ->
           <<"I","s","s","u","e","s",":"," ","T","r","a","i","l"," ","i","s"," ","n","o","t"," ","l","o","g","g","i","n","g",","," ","N","o","t"," ","m","u","l","t","i","-","r","e","g","i","o","n">>
      [] s = "Issues: Not multi-region" ->
           <<"I","s","s","u","e","s",":"," ","N","o","t"," ","m","u","l","t","i","-","r","e","g","i","o","n">>
      [] s = "Error checking CloudTrail: AccessDenied" ->
           <<"E","r","r","o","r"," ","c","h","e","c","k","i","n","g"," ","C","l","o","u","d","T","r","a","i","l",":"," ","A","c","c","e","s","s","D","e","n","i","e","d">>

critical_keywords ==
    << <<"p","u","b","l","i","c"," ","a","c","c","e","s","s">>,
       <<"n","o"," ","e","n","c","r","y","p","t","i","o","n">>,
       <<"r","o","o","t"," ","a","c","c","o","u","n","t">>,
       <<"n","o"," ","m","f","a">>,
       <<"p","a","s","s","w","o","r","d"," ","p","o","l","i","c","y">>,
       <<"0",".","0",".","0",".","0","/","0">>,
       <<"c","l","o","u","d","t","r","a","i","l">> >>


(***************************************************************************)
(* round(passed / total * 100, 2), in hundredths.                          *)
(* Off a decimal midpoint the result is the nearest hundredth.  On a       *)
(* midpoint (20000 * passed / total an odd integer, so total is a multiple *)
(* of 32) round() follows the binary64 value of passed / total * 100:      *)
(* with the reduced denominator 32 that value is exact and round() goes to *)
(* the even hundredth; otherwise the value lies just above or just below   *)
(* the midpoint, as listed for the reduced fractions the model can reach.  *)
(***************************************************************************)
RECURSIVE GCD(_, _)
GCD(a, b) == IF b = 0 THEN a ELSE GCD(b, a % b)

Binary64AboveTie == { <<1, 4000>>, <<1, 20000>> }

Binary64BelowTie == { <<1, 160>>, <<1, 800>> }

\* Round2 with the quotient cut off instead of rounded.
Round2Truncated(passed, total) == (passed * 10000) \div total

Round2(passed, total) ==
    LET n == passed * 10000
        q == n \div total
        r == n % total
        g == GCD(passed, total)
        reduced == << passed \div g, total \div g >>
    IN  CASE 2 * r < total -> q
          [] 2 * r > total -> q + 1
          [] 2 * r = total /\ reduced[2] = 32 -> IF q % 2 = 0 THEN q ELSE q + 1
          [] 2 * r = total /\ reduced \in Binary64AboveTie -> q + 1
          [] 2 * r = total /\ reduced \in Binary64BelowTie -> q

(***************************************************************************)
(* Framework Scorer: calculate_framework_scores.                           *)
(***************************************************************************)
\* ControlFrameworks taking the primary 'framework' before the 'frameworks' list.
ControlFrameworksPrimaryFirst(control) ==
    IF "framework" \in DOMAIN control
    THEN << control.framework >>
    ELSE IF "frameworks" \in DOMAIN control
         THEN IF control.frameworks.type = "str"
              THEN << control.frameworks.value >>
              ELSE control.frameworks.value
         ELSE << "Unknown" >>

ControlFrameworks(control) ==
    LET control_frameworks ==
            IF "frameworks" \in DOMAIN control
            THEN control.frameworks
            ELSE PyList(<< IF "framework" \in DOMAIN control
                           THEN control.framework
                           ELSE "Unknown" >>)
    IN  IF control_frameworks.type = "str"
        THEN << control_frameworks.value >>
        ELSE control_frameworks.value

ControlStatus(control) ==
    IF "status" \in DOMAIN control THEN control.status ELSE "unknown"

NewTally(framework) ==
    [name |-> framework, total |-> 0, passed |-> 0, failed |-> 0, warnings |-> 0]

HasFramework(fws, framework) == \E i \in 1..Len(fws) : fws[i].name = framework

\* Bump with an error finding counted as failed.
BumpErrorAsFailed(tally, status) ==
    [tally EXCEPT
        !.total = @ + 1,
        !.passed = IF status = "passed" THEN @ + 1 ELSE @,
        !.failed = IF status \in {"failed", "error"} THEN @ + 1 ELSE @,
        !.warnings = IF status = "warning" THEN @ + 1 ELSE @]

\* Bump with a status outside passed / failed / warning counted as a warning.
BumpUnknownAsWarning(tally, status) ==
    [tally EXCEPT
        !.total = @ + 1,
        !.passed = IF status = "passed" THEN @ + 1 ELSE @,
        !.failed = IF status = "failed" THEN @ + 1 ELSE @,
        !.warnings = IF status \notin {"passed", "failed"} THEN @ + 1 ELSE @]

Bump(tally, status) ==
    [tally EXCEPT
        !.total = @ + 1,
        !.passed = IF status = "passed" THEN @ + 1 ELSE @,
        !.failed = IF status = "failed" THEN @ + 1 ELSE @,
        !.warnings = IF status = "warning" THEN @ + 1 ELSE @]

CountFramework(fws, framework, status) ==
    LET present == IF HasFramework(fws, framework)
                   THEN fws
                   ELSE Append(fws, NewTally(framework))
        k == CHOOSE i \in 1..Len(present) : present[i].name = framework
    IN  [present EXCEPT ![k] = Bump(@, status)]

RECURSIVE CountControl(_, _, _)
CountControl(fws, control_frameworks, status) ==
    IF control_frameworks = <<>>
    THEN fws
    ELSE LET counted == CountFramework(fws, Head(control_frameworks), status)
         \* after the step the framework has its entry in the dict
         IN  CASE HasFramework(counted, Head(control_frameworks)) ->
                    CountControl(counted, Tail(control_frameworks), status)

RECURSIVE Tallies(_, _)
RECURSIVE TalliesUntilError(_, _)

\* Tallies giving up the rest of the input at the first finding of status error.
TalliesUntilError(fws, controls) ==
    IF controls = <<>> \/ ControlStatus(Head(controls)) = "error"
    THEN fws
    ELSE TalliesUntilError(CountControl(fws, ControlFrameworks(Head(controls)),
                                        ControlStatus(Head(controls))),
                           Tail(controls))

Tallies(fws, controls) ==
    IF controls = <<>>
    THEN fws
    ELSE LET counted == CountControl(fws, ControlFrameworks(Head(controls)),
                                     ControlStatus(Head(controls)))
         \* entries are added to the dict and never removed
         IN  CASE Len(counted) >= Len(fws) -> Tallies(counted, Tail(controls))

WithScore(tally) ==
    [name |-> tally.name, total |-> tally.total, passed |-> tally.passed,
     failed |-> tally.failed, warnings |-> tally.warnings,
     score |-> IF tally.total > 0 THEN Round2(tally.passed, tally.total) ELSE 0]

\* InsertByScore for a sort that puts a tally before the tallies of equal score.
InsertByScoreUnstable(sorted, tally) ==
    LET n == Cardinality({i \in 1..Len(sorted) : sorted[i].score > tally.score})
    IN  SubSeq(sorted, 1, n) \o << tally >> \o SubSeq(sorted, n + 1, Len(sorted))

\* list.sort(key = score, reverse = True): stable, equal scores keep their order.
InsertByScore(sorted, tally) ==
    LET n == Cardinality({i \in 1..Len(sorted) : sorted[i].score >= tally.score})
    IN  SubSeq(sorted, 1, n) \o << tally >> \o SubSeq(sorted, n + 1, Len(sorted))

RECURSIVE SortByScore(_, _)
SortByScore(sorted, rest) ==
    IF rest = <<>>
    THEN sorted
    ELSE LET inserted == InsertByScore(sorted, Head(rest))
         \* the sort neither drops nor repeats an element
         IN  CASE Len(inserted) = Len(sorted) + 1 -> SortByScore(inserted, Tail(rest))

ScoreTallies(fws) ==
    SortByScore(<<>>, [i \in 1..Len(fws) |-> WithScore(fws[i])])

calculate_framework_scores(controls) == ScoreTallies(Tallies(<<>>, controls))

(***************************************************************************)
(* Critical-Finding Classifier: identify_critical_findings.                *)
(***************************************************************************)
IsCritical(details) ==
    \E k \in 1..Len(critical_keywords) :
        Contains(Lower(Chars(details)), critical_keywords[k])

ControlResource(control) ==
    IF "resource" \in DOMAIN control THEN control.resource
    ELSE IF "bucket" \in DOMAIN control THEN control.bucket
    ELSE "N/A"

CriticalFinding(control) ==
    [severity |-> IF IsCritical(control.details) THEN "high" ELSE "medium",
     control_id |-> control.control_id,
     control_name |-> control.control_name,
     framework |-> control.framework,
     details |-> control.details,
     resource |-> ControlResource(control)]

\* IsFailed that also lets a warning through.
IsFailedOrWarning(control) == control.status \in {"failed", "warning"}

\* `if control['status'] == 'failed'`
IsFailed(control) == control.status = "failed"

\* control['status'] and, for a failed control, control['details'] ... raise
\* KeyError on a dict that lacks the key.
ClassifierKeyError(controls) ==
    \E i \in 1..Len(controls) :
        \/ "status" \notin DOMAIN controls[i]
        \/ /\ IsFailed(controls[i])
           /\ ~({"details", "control_id", "control_name", "framework"}
                    \subseteq DOMAIN controls[i])

RECURSIVE FailedControls(_)
FailedControls(controls) ==
    IF controls = <<>>
    THEN <<>>
    ELSE IF IsFailed(Head(controls))
         THEN << CriticalFinding(Head(controls)) >> \o FailedControls(Tail(controls))
         ELSE FailedControls(Tail(controls))

SeverityKey(finding) == IF finding.severity = "high" THEN 0 ELSE 1

\* InsertBySeverity for a sort that puts a finding before those of its severity.
InsertBySeverityUnstable(sorted, finding) ==
    LET n == Cardinality({i \in 1..Len(sorted) :
                             SeverityKey(sorted[i]) < SeverityKey(finding)})
    IN  SubSeq(sorted, 1, n) \o << finding >> \o SubSeq(sorted, n + 1, Len(sorted))

\* list.sort(key = 0 if high else 1): stable, ascending.
InsertBySeverity(sorted, finding) ==
    LET n == Cardinality({i \in 1..Len(sorted) :
                             SeverityKey(sorted[i]) <= SeverityKey(finding)})
    IN  SubSeq(sorted, 1, n) \o << finding >> \o SubSeq(sorted, n + 1, Len(sorted))

RECURSIVE SortBySeverity(_, _)
SortBySeverity(sorted, rest) ==
    IF rest = <<>>
    THEN sorted
    ELSE LET inserted == InsertBySeverity(sorted, Head(rest))
         \* the sort neither drops nor repeats an element
         IN  CASE Len(inserted) = Len(sorted) + 1 -> SortBySeverity(inserted, Tail(rest))

identify_critical_findings(controls) ==
    SortBySeverity(<<>>, FailedControls(controls))

(***************************************************************************)
(* Resource checkers.  Each takes the answers of the cloud API calls it    *)
(* makes and returns what the code returns on those answers.               *)
(***************************************************************************)
Finding(id, name, status, fws, primary, details) ==
    [control_id |-> id, control_name |-> name, status |-> status,
     frameworks |-> PyList(fws), framework |-> primary, details |-> details]

CountStatus(results, status) ==
    Cardinality({i \in 1..Len(results) : results[i].status = status})

\* ---- the local file write each checker ends with ----
\* Inside Lambda the write is skipped; outside, open and json.dump either
\* write the file or raise.
LocalWrites == {"skipped", "written", "failed"}

\* SaveLocal letting the exception of a failed write through.
SaveLocalUnguarded(write) == IF write = "failed" THEN "OSError" ELSE NoError

\* `try: if 'AWS_LAMBDA_FUNCTION_NAME' not in os.environ: ... except Exception: pass`
\* The exception that leaves the statement, "None" when there is none.
SaveLocal(write) ==
    CASE write = "skipped" -> NoError
      [] write = "written" -> NoError
      [] write = "failed" -> NoError

\* One attempted API call: its name, the resource it was made for, and whether
\* it answered ("ok"), answered that the thing asked for does not exist
\* ("not_found", an exception the code reads as an answer) or raised ("failed").
Call(name, resource, outcome) == [call |-> name, resource |-> resource, outcome |-> outcome]

\* ---- aws_iam_checker ----
MfaAnswers == {"mfa_enabled", "mfa_disabled", "exception"}

\* MfaCalls with a second attempt after a failed call.
MfaCallsRetried(answer) ==
    IF answer = "exception"
    THEN << Call("get_account_summary", "account", "failed"),
            Call("get_account_summary", "account", "failed") >>
    ELSE << Call("get_account_summary", "account", "ok") >>

MfaCalls(answer) ==
    << Call("get_account_summary", "account",
            IF answer = "exception" THEN "failed" ELSE "ok") >>

check_mfa_enabled(answer) ==
    CASE answer = "mfa_enabled" ->
            Finding(<<"IAM-001">>, "MFA Enforcement", "passed",
                    <<"SOC 2", "ISO 27001", "NIST CSF", "PCI-DSS">>, "SOC 2",
                    "Root account has MFA enabled")
      [] answer = "mfa_disabled" ->
            Finding(<<"IAM-001">>, "MFA Enforcement", "failed",
                    <<"SOC 2", "ISO 27001", "NIST CSF", "PCI-DSS">>, "SOC 2",
                    "Root account does not have MFA enabled - HIGH RISK")
      [] answer = "exception" -> None

\* "generate_failed": generate_credential_report raised and the report
\* generated earlier shows no use of the root account
RootAnswers == {"N/A", "2024-01-01", "generate_failed", "exception"}

RootCalls(answer) ==
    << Call("generate_credential_report", "account",
            IF answer = "generate_failed" THEN "failed" ELSE "ok"),
       Call("get_credential_report", "account",
            IF answer = "exception" THEN "failed" ELSE "ok") >>

check_root_account_usage(answer) ==
    CASE answer \in {"N/A", "generate_failed"} ->
            Finding(<<"IAM-002">>, "Root Account Usage", "passed",
                    <<"SOC 2", "ISO 27001", "NIST CSF">>, "SOC 2",
                    "Root account shows no recent usage")
      [] answer = "2024-01-01" ->
            Finding(<<"IAM-002">>, "Root Account Usage", "warning",
                    <<"SOC 2", "ISO 27001", "NIST CSF">>, "SOC 2",
                    "Root account was used on 2024-01-01")
      [] answer = "exception" -> None

\* One user, alice.  "no_console": get_login_profile raised NoSuchEntity;
\* "exception": list_users raised; "mfa_exception": list_mfa_devices raised.
UserAnswers == {"all_have_mfa", "alice_without_mfa", "no_console", "exception",
                "mfa_exception"}

UserCalls(answer) ==
    CASE answer = "exception" -> << Call("list_users", "account", "failed") >>
      [] answer = "no_console" ->
            << Call("list_users", "account", "ok"),
               Call("get_login_profile", "alice", "not_found") >>
      [] answer \in {"all_have_mfa", "alice_without_mfa", "mfa_exception"} ->
            << Call("list_users", "account", "ok"),
               Call("get_login_profile", "alice", "ok"),
               Call("list_mfa_devices", "alice",
                    IF answer = "mfa_exception" THEN "failed" ELSE "ok") >>

check_users_with_console_access(answer) ==
    CASE answer \in {"all_have_mfa", "no_console"} ->
            Finding(<<"IAM-003">>, "User MFA Enforcement", "passed",
                    <<"SOC 2", "ISO 27001", "NIST CSF", "PCI-DSS">>, "ISO 27001",
                    "All IAM users with console access have MFA")
      [] answer = "alice_without_mfa" ->
            Finding(<<"IAM-003">>, "User MFA Enforcement", "failed",
                    <<"SOC 2", "ISO 27001", "NIST CSF", "PCI-DSS">>, "ISO 27001",
                    "1 users without MFA: alice")
      [] answer \in {"exception", "mfa_exception"} -> None

PolicyAnswers == {"strong", "numbers_not_required", "NoSuchEntity", "exception"}

PolicyCalls(answer) ==
    << Call("get_account_password_policy", "account",
            CASE answer = "exception" -> "failed"
              [] answer = "NoSuchEntity" -> "not_found"
              [] OTHER -> "ok") >>

check_password_policy(answer) ==
    CASE answer = "strong" ->
            Finding(<<"IAM-004">>, "Password Policy", "passed",
                    <<"SOC 2", "ISO 27001", "NIST CSF", "PCI-DSS", "HIPAA">>, "NIST CSF",
                    "Password policy meets security standards")
      [] answer = "numbers_not_required" ->
            Finding(<<"IAM-004">>, "Password Policy", "warning",
                    <<"SOC 2", "ISO 27001", "NIST CSF", "PCI-DSS", "HIPAA">>, "NIST CSF",
                    "Issues: Numbers not required")
      [] answer = "NoSuchEntity" ->
            Finding(<<"IAM-004">>, "Password Policy", "failed",
                    <<"SOC 2", "ISO 27001", "NIST CSF", "PCI-DSS", "HIPAA">>, "NIST CSF",
                    "No account password policy exists")
      [] answer = "exception" -> None

\* `if result: results.append(result)`
AppendResult(results, result) ==
    IF result # None THEN Append(results, result) ELSE results

IamResults(mfa, root, users, policy) ==
    AppendResult(
        AppendResult(
            AppendResult(
                AppendResult(<<>>, check_mfa_enabled(mfa)),
                check_root_account_usage(root)),
            check_users_with_console_access(users)),
        check_password_policy(policy))

\* The four checks are called one after the other, whatever each returns.
IamCalls(mfa, root, users, policy) ==
    MfaCalls(mfa) \o RootCalls(root) \o UserCalls(users) \o PolicyCalls(policy)

\* The exception that leaves run_iam_compliance_checks, "None" when it returns.
IamRaised(results, write) ==
    IF Len(results) = 0 THEN "ZeroDivisionError" ELSE SaveLocal(write)

\* The report of run_iam_compliance_checks for a non-empty `results`; with
\* results empty the division of line 247 raises ZeroDivisionError.
IamOutput(results) ==
    [total_checks |-> Len(results),
     passed |-> CountStatus(results, "passed"),
     failed |-> CountStatus(results, "failed"),
     warnings |-> CountStatus(results, "warning"),
     compliance_score |-> Round2(CountStatus(results, "passed"), Len(results)),
     controls |-> results]

\* ---- aws_s3_checker ----
BucketNames == <<"b1", "b2", "b3">>

\* A bucket: the answers of the four calls made on it.
HardenedBucket ==
    [encryption |-> "enabled", public_access |-> "all_blocked",
     versioning |-> "Enabled", logging |-> "enabled"]

OpenBucket ==
    [encryption |-> "not_found", public_access |-> "not_configured",
     versioning |-> "Disabled", logging |-> "none"]

DeniedBucket ==
    [encryption |-> "AccessDenied", public_access |-> "AccessDenied",
     versioning |-> "AccessDenied", logging |-> "AccessDenied"]

BucketConfigs == { HardenedBucket, OpenBucket, DeniedBucket }

check_bucket_encryption(config) ==
    CASE config.encryption = "enabled" -> << "True", "Encryption enabled" >>
      [] config.encryption = "not_found" -> << "False", "No encryption configured" >>
      [] OTHER -> << "None", "Error checking encryption: AccessDenied" >>

check_bucket_public_access(config) ==
    CASE config.public_access = "all_blocked" -> << "True", "All public access blocked" >>
      [] config.public_access = "partly_blocked" -> << "False", "Issues: BlockPublicAcls=False" >>
      [] config.public_access = "not_configured" ->
            << "False", "No public access block configured (RISK!)" >>
      [] OTHER -> << "None", "Error: AccessDenied" >>

check_bucket_versioning(config) ==
    CASE config.versioning = "Enabled" -> << "True", "Versioning enabled" >>
      [] config.versioning = "Disabled" -> << "False", "Versioning is Disabled" >>
      [] OTHER -> << "None", "Error: AccessDenied" >>

check_bucket_logging(config) ==
    CASE config.logging = "enabled" -> << "True", "Logging to logs" >>
      [] config.logging = "none" -> << "False", "No logging configured" >>
      [] OTHER -> << "None", "Error: AccessDenied" >>

\* BucketStatus with a status of its own for a check without verdict.
BucketStatusUnknown(verdict, on_false) ==
    CASE verdict = "True" -> "passed"
      [] verdict = "False" -> on_false
      [] OTHER -> "unknown"

\* `passed` on True, `on_false` on False, `error` on None
BucketStatus(verdict, on_false) ==
    CASE verdict = "True" -> "passed"
      [] verdict = "False" -> on_false
      [] OTHER -> "error"

BucketFinding(id, name, bucket_name, status, fws, primary, details) ==
    [control_id |-> << id, bucket_name >>, control_name |-> name,
     bucket |-> bucket_name, status |-> status,
     frameworks |-> PyList(fws), framework |-> primary, details |-> details]

check_single_bucket(bucket_name, config) ==
    LET enc == check_bucket_encryption(config)
        blk == check_bucket_public_access(config)
        ver == check_bucket_versioning(config)
        log == check_bucket_logging(config)
    IN  << BucketFinding("S3-001", "Bucket Encryption", bucket_name,
                         BucketStatus(enc[1], "failed"),
                         <<"SOC 2", "ISO 27001", "HIPAA", "PCI-DSS">>, "ISO 27001", enc[2]),
           BucketFinding("S3-002", "Public Access Block", bucket_name,
                         BucketStatus(blk[1], "failed"),
                         <<"SOC 2", "ISO 27001", "NIST CSF", "HIPAA">>, "SOC 2", blk[2]),
           BucketFinding("S3-003", "Bucket Versioning", bucket_name,
                         BucketStatus(ver[1], "warning"),
                         <<"NIST CSF", "ISO 27001">>, "NIST CSF", ver[2]),
           BucketFinding("S3-004", "Access Logging", bucket_name,
                         BucketStatus(log[1], "warning"),
                         <<"SOC 2", "ISO 27001", "NIST CSF">>, "SOC 2", log[2]) >>

RECURSIVE CheckBuckets(_, _)
CheckBuckets(configs, k) ==
    IF k > Len(configs)
    THEN <<>>
    ELSE check_single_bucket(BucketNames[k], configs[k]) \o CheckBuckets(configs, k + 1)

ScoreOrZero(passed, total) == IF total > 0 THEN Round2(passed, total) ELSE 0

\* The four calls made for one bucket, in the order of check_single_bucket.
BucketCalls(bucket_name, config) ==
    << Call("get_bucket_encryption", bucket_name,
            CASE config.encryption = "enabled" -> "ok"
              [] config.encryption = "not_found" -> "not_found"
              [] OTHER -> "failed"),
       Call("get_public_access_block", bucket_name,
            CASE config.public_access \in {"all_blocked", "partly_blocked"} -> "ok"
              [] config.public_access = "not_configured" -> "not_found"
              [] OTHER -> "failed"),
       Call("get_bucket_versioning", bucket_name,
            IF config.versioning \in {"Enabled", "Disabled"} THEN "ok" ELSE "failed"),
       Call("get_bucket_logging", bucket_name,
            IF config.logging \in {"enabled", "none"} THEN "ok" ELSE "failed") >>

RECURSIVE AllBucketCalls(_, _)
AllBucketCalls(configs, k) ==
    IF k > Len(configs)
    THEN <<>>
    ELSE BucketCalls(BucketNames[k], configs[k]) \o AllBucketCalls(configs, k + 1)

S3Calls(answer, configs) ==
    IF answer = "exception"
    THEN << Call("list_buckets", "account", "failed") >>
    ELSE << Call("list_buckets", "account", "ok") >> \o AllBucketCalls(configs, 1)

S3Output(configs) ==
    LET all_results == CheckBuckets(configs, 1)
    IN  [total_buckets |-> Len(configs),
         total_checks |-> Len(all_results),
         passed |-> CountStatus(all_results, "passed"),
         failed |-> CountStatus(all_results, "failed"),
         warnings |-> CountStatus(all_results, "warning"),
         errors |-> CountStatus(all_results, "error"),
         compliance_score |-> ScoreOrZero(CountStatus(all_results, "passed"), Len(all_results)),
         controls |-> all_results]

\* ---- aws_ec2_checker ----
GroupIds == <<"sg-1", "sg-2", "sg-3">>

\* A security group: the CIDRs of its inbound and outbound rules, one rule each.
ClosedGroup ==
    [IpPermissions |-> << [IpRanges |-> <<"10.0.0.0/8">>, Ipv6Ranges |-> <<>>] >>,
     IpPermissionsEgress |-> <<>>]

OpenGroup ==
    [IpPermissions |-> << [IpRanges |-> <<"0.0.0.0/0">>, Ipv6Ranges |-> <<>>] >>,
     IpPermissionsEgress |-> << [IpRanges |-> <<>>, Ipv6Ranges |-> <<"::/0">>] >>]

GroupConfigs == { ClosedGroup, OpenGroup }

RiskyInRule(rule) ==
    Cardinality({i \in 1..Len(rule.IpRanges) : rule.IpRanges[i] = "0.0.0.0/0"})
    + Cardinality({i \in 1..Len(rule.Ipv6Ranges) : rule.Ipv6Ranges[i] = "::/0"})

RECURSIVE check_security_group_rules(_)
check_security_group_rules(rules) ==
    IF rules = <<>>
    THEN 0
    ELSE RiskyInRule(Head(rules)) + check_security_group_rules(Tail(rules))

GroupFinding(id, name, sg_id, status, fws, primary, details) ==
    [control_id |-> << id, sg_id >>, control_name |-> name,
     resource |-> sg_id, status |-> status,
     frameworks |-> PyList(fws), framework |-> primary, details |-> details]

check_single_security_group(sg_id, sg) ==
    LET risky_inbound == check_security_group_rules(sg.IpPermissions)
        risky_outbound == check_security_group_rules(sg.IpPermissionsEgress)
    IN  << GroupFinding("EC2-SG-001", "Security Group Inbound Rules", sg_id,
                        IF risky_inbound = 0 THEN "passed" ELSE "failed",
                        <<"SOC 2", "ISO 27001", "NIST CSF", "PCI-DSS">>, "SOC 2",
                        CASE risky_inbound = 0 -> "No rules allow access from 0.0.0.0/0"
                          [] risky_inbound = 1 -> "1 rules allow access from anywhere: 22-22"),
           GroupFinding("EC2-SG-002", "Security Group Outbound Rules", sg_id,
                        IF risky_outbound = 0 THEN "passed" ELSE "warning",
                        <<"NIST CSF", "ISO 27001">>, "NIST CSF",
                        CASE risky_outbound = 0 -> "Outbound traffic is controlled"
                          [] risky_outbound = 1 -> "1 rules allow traffic to anywhere") >>

RECURSIVE CheckGroups(_, _)
CheckGroups(groups, k) ==
    IF k > Len(groups)
    THEN <<>>
    ELSE check_single_security_group(GroupIds[k], groups[k]) \o CheckGroups(groups, k + 1)

Ec2Output(groups) ==
    LET all_results == CheckGroups(groups, 1)
    IN  [total_security_groups |-> Len(groups),
         total_checks |-> Len(all_results),
         passed |-> CountStatus(all_results, "passed"),
         failed |-> CountStatus(all_results, "failed"),
         warnings |-> CountStatus(all_results, "warning"),
         compliance_score |-> ScoreOrZero(CountStatus(all_results, "passed"), Len(all_results)),
         controls |-> all_results]

Ec2Calls(answer) ==
    << Call("describe_security_groups", "account",
            IF answer = "exception" THEN "failed" ELSE "ok") >>

\* describe_security_groups raised, or answered with `groups`; an exception
\* leaving the local write would be caught by the except clause of line 182.
run_ec2_security_group_checks(answer, groups, write) ==
    CASE answer = "exception" \/ Len(groups) = 0 -> None
      [] answer # "exception" /\ Len(groups) > 0 /\ SaveLocal(write) # NoError -> None
      [] OTHER -> Ec2Output(groups)

\* ---- aws_cloudtrail_checker ----
TrailNames == <<"trail-1", "trail-2", "trail-3">>

\* A trail: its describe_trails entry and the answer of get_trail_status.
TrailConfigs ==
    { [IsMultiRegionTrail |-> TRUE, LogFileValidationEnabled |-> TRUE, status |-> "logging"],
      [IsMultiRegionTrail |-> FALSE, LogFileValidationEnabled |-> TRUE, status |-> "stopped"],
      [IsMultiRegionTrail |-> FALSE, LogFileValidationEnabled |-> TRUE, status |-> "logging"],
      [IsMultiRegionTrail |-> TRUE, LogFileValidationEnabled |-> TRUE, status |-> "exception"] }

TrailFws == <<"SOC 2", "ISO 27001", "NIST CSF", "HIPAA", "PCI-DSS">>

TrailIssues(trail) ==
    (IF trail.status # "logging" THEN <<"Trail is not logging">> ELSE <<>>)
    \o (IF ~trail.IsMultiRegionTrail THEN <<"Not multi-region">> ELSE <<>>)
    \o (IF ~trail.LogFileValidationEnabled THEN <<"Log file validation disabled">> ELSE <<>>)

\* f"Issues: {', '.join(issues)}"
IssuesText(issues) ==
    CASE issues = <<"Trail is not logging", "Not multi-region">> ->
            "Issues: Trail is not logging, Not multi-region"
      [] issues = <<"Not multi-region">> -> "Issues: Not multi-region"

TrailFinding(trail_name, trail) ==
    LET issues == TrailIssues(trail)
    IN  [control_id |-> << "TRAIL-001", trail_name >>,
         control_name |-> "CloudTrail Configuration",
         resource |-> trail_name,
         status |-> CASE Len(issues) = 0 -> "passed"
                      [] Len(issues) > 0 /\ trail.status # "logging" -> "failed"
                      [] OTHER -> "warning",
         frameworks |-> PyList(TrailFws), framework |-> "SOC 2",
         details |-> IF Len(issues) = 0
                     THEN "CloudTrail is enabled and properly configured"
                     ELSE IssuesText(issues)]

TrailError ==
    Finding(<<"TRAIL-001">>, "CloudTrail Enabled", "error",
            <<"SOC 2", "ISO 27001", "NIST CSF">>, "SOC 2",
            "Error checking CloudTrail: AccessDenied")

\* describe_trails raised, or answered with `trails`
check_cloudtrail_enabled(answer, trails) ==
    CASE answer = "exception" -> << TrailError >>
      [] answer # "exception" /\ Len(trails) = 0 ->
            << Finding(<<"TRAIL-001">>, "CloudTrail Enabled", "failed", TrailFws, "SOC 2",
                       "No CloudTrail trails exist - audit logging is disabled") >>
      [] answer # "exception" /\ Len(trails) > 0
            /\ (\E i \in 1..Len(trails) : trails[i].status = "exception") ->
            << TrailError >>
      [] OTHER -> [i \in 1..Len(trails) |-> TrailFinding(TrailNames[i], trails[i])]

\* The trails whose status is asked for: all of them, or those up to the first
\* whose get_trail_status raises.
TrailsAsked(trails) ==
    IF \E i \in 1..Len(trails) : trails[i].status = "exception"
    THEN CHOOSE i \in 1..Len(trails) :
            /\ trails[i].status = "exception"
            /\ \A j \in 1..(i - 1) : trails[j].status # "exception"
    ELSE Len(trails)

CloudTrailCalls(answer, trails) ==
    IF answer = "exception"
    THEN << Call("describe_trails", "account", "failed") >>
    ELSE << Call("describe_trails", "account", "ok") >>
         \o [i \in 1..TrailsAsked(trails) |->
                Call("get_trail_status", TrailNames[i],
                     IF trails[i].status = "exception" THEN "failed" ELSE "ok")]

\* The exception that leaves run_cloudtrail_checks, "None" when it returns.
CloudTrailRaised(write) == SaveLocal(write)

run_cloudtrail_checks(answer, trails) ==
    LET results == check_cloudtrail_enabled(answer, trails)
    IN  [total_checks |-> Len(results),
         passed |-> CountStatus(results, "passed"),
         failed |-> CountStatus(results, "failed"),
         warnings |-> CountStatus(results, "warning"),
         compliance_score |-> ScoreOrZero(CountStatus(results, "passed"), Len(results)),
         controls |-> results]

\* run_s3_compliance_checks has three ways out: the bare `return` on an empty
\* bucket list, `return None` in the except clause, and the end of the function
\* body after the report is built.  None of them returns `output`.
S3LocalOutput(answer, configs) ==
    IF answer = "exception" \/ Len(configs) = 0 THEN None ELSE S3Output(configs)

run_s3_compliance_checks(answer, configs) == None

(***************************************************************************)
(* Finding Aggregator and statistics of lambda_handler.                    *)
(***************************************************************************)
\* `if report: all_controls.extend(report.get('controls', []))`
ReportControls(report) ==
    IF report # None /\ report # EmptyDict
    THEN IF "controls" \in DOMAIN report THEN report.controls ELSE <<>>
    ELSE <<>>

\* CombineControls with the S3 and EC2 reports taken in the other order.
CombineControlsSwapped(iam, s3, ec2, cloudtrail) ==
    ReportControls(iam) \o ReportControls(ec2) \o ReportControls(s3)
        \o ReportControls(cloudtrail)

CombineControls(iam, s3, ec2, cloudtrail) ==
    ReportControls(iam) \o ReportControls(s3) \o ReportControls(ec2)
        \o ReportControls(cloudtrail)

OverallScore(controls) ==
    IF Len(controls) > 0 THEN Round2(CountStatus(controls, "passed"), Len(controls)) ELSE 0

\* RiskLevel with strict comparisons at the two boundaries.
RiskLevelStrict(score) ==
    IF score > 8000 THEN "LOW" ELSE IF score > 6000 THEN "MEDIUM" ELSE "HIGH"

RiskLevel(score) ==
    IF score >= 8000 THEN "LOW" ELSE IF score >= 6000 THEN "MEDIUM" ELSE "HIGH"

\* comprehensive_report, a function of the handler's locals, which no later
\* step assigns
comprehensive_report ==
    [executive_summary |->
        [overall_score |-> overall_score,
         total_checks |-> Len(all_controls),
         passed |-> CountStatus(all_controls, "passed"),
         failed |-> CountStatus(all_controls, "failed"),
         warnings |-> CountStatus(all_controls, "warning"),
         risk_level |-> risk_level],
     framework_scores |-> framework_scores,
     critical_findings |-> critical_findings,
     detailed_controls |-> all_controls,
     individual_reports |->
        [iam |-> iam_report, s3 |-> s3_report, ec2 |-> ec2_report,
         cloudtrail |-> cloudtrail_report]]

(***************************************************************************)
(* lambda_handler, one action per step.                                    *)
(***************************************************************************)
Init ==
    /\ pc = "start"
    /\ all_controls = <<>>
    /\ frameworks = <<>>
    /\ framework_scores = <<>>
    /\ critical_findings = <<>>
    /\ iam_report = None
    /\ s3_report = None
    /\ ec2_report = None
    /\ cloudtrail_report = None
    /\ s3_output = None
    /\ overall_score = 0
    /\ scanned = 0
    /\ put_calls = 0
    /\ error = NoError
    /\ response = None
    /\ risk_level = "None"
    /\ answers = None
    /\ local_write = "none"
    /\ api_calls = <<>>
    /\ handler_calls = <<>>

\* One call lambda_handler made, and whether it returned or raised.
HandlerCall(name, outcome) == [call |-> name, outcome |-> outcome]

\* lines 249-262: the except clause turns an exception raised inside the try
\* block into the failure response.
Caught(exception) ==
    /\ error' = exception
    /\ response' = [statusCode |-> 500, error |-> exception]
    /\ pc' = "done"

\* line 124, before the try block: an exception here leaves the handler.
CreateClient ==
    /\ pc = "start"
    /\ \E ok \in BOOLEAN :
        IF ok
        THEN pc' = "iam" /\ UNCHANGED error
        ELSE pc' = "raised" /\ error' = "ClientCreationError"
    /\ UNCHANGED << all_controls, frameworks, framework_scores, critical_findings,
                    iam_report, s3_report, ec2_report, cloudtrail_report, s3_output,
                    overall_score, scanned, put_calls, response >>
    /\ UNCHANGED << risk_level, answers, local_write, api_calls, handler_calls >>

\* line 132
RunIAM ==
    /\ pc = "iam"
    /\ \E mfa \in MfaAnswers, root \in RootAnswers,
          users \in UserAnswers, policy \in PolicyAnswers, write \in LocalWrites :
        LET results == IamResults(mfa, root, users, policy)
        IN  IF IamRaised(results, write) # NoError
            THEN /\ Caught(IamRaised(results, write))
                 /\ UNCHANGED iam_report
                 /\ handler_calls' = Append(handler_calls, HandlerCall("run_iam_compliance_checks", "raised"))
            ELSE /\ iam_report' = IamOutput(results)
                 /\ pc' = "s3"
                 /\ UNCHANGED << error, response >>
                 /\ handler_calls' = Append(handler_calls, HandlerCall("run_iam_compliance_checks", "returned"))
    /\ UNCHANGED << all_controls, frameworks, framework_scores, critical_findings,
                    s3_report, ec2_report, cloudtrail_report, s3_output,
                    overall_score, scanned, put_calls >>
    /\ UNCHANGED << risk_level, answers, local_write, api_calls >>

\* line 135
RunS3 ==
    /\ pc = "s3"
    /\ \E answer \in {"ok", "exception"}, n \in 0..MaxBuckets :
        \E configs \in [1..n -> BucketConfigs] :
            /\ answer = "exception" => n = 0
            /\ s3_output' = S3LocalOutput(answer, configs)
            /\ s3_report' = run_s3_compliance_checks(answer, configs)
    /\ pc' = "ec2"
    /\ handler_calls' = Append(handler_calls, HandlerCall("run_s3_compliance_checks", "returned"))
    /\ UNCHANGED << all_controls, frameworks, framework_scores, critical_findings,
                    iam_report, ec2_report, cloudtrail_report,
                    overall_score, scanned, put_calls, error, response >>
    /\ UNCHANGED << risk_level, answers, local_write, api_calls >>

\* line 138
RunEC2 ==
    /\ pc = "ec2"
    /\ \E answer \in {"ok", "exception"}, n \in 0..MaxGroups :
        \E groups \in [1..n -> GroupConfigs] :
            /\ answer = "exception" => n = 0
            /\ \E write \in LocalWrites :
                  ec2_report' = run_ec2_security_group_checks(answer, groups, write)
    /\ pc' = "cloudtrail"
    /\ handler_calls' = Append(handler_calls, HandlerCall("run_ec2_security_group_checks", "returned"))
    /\ UNCHANGED << all_controls, frameworks, framework_scores, critical_findings,
                    iam_report, s3_report, cloudtrail_report, s3_output,
                    overall_score, scanned, put_calls, error, response >>
    /\ UNCHANGED << risk_level, answers, local_write, api_calls >>

\* line 141
RunCloudTrail ==
    /\ pc = "cloudtrail"
    /\ \E answer \in {"ok", "exception"}, n \in 0..MaxTrails :
        \E trails \in [1..n -> TrailConfigs] :
            /\ answer = "exception" => n = 0
            /\ \E write \in LocalWrites :
                  IF CloudTrailRaised(write) # NoError
                  THEN /\ Caught(CloudTrailRaised(write))
                       /\ UNCHANGED cloudtrail_report
                       /\ handler_calls' = Append(handler_calls, HandlerCall("run_cloudtrail_checks", "raised"))
                  ELSE /\ cloudtrail_report' = run_cloudtrail_checks(answer, trails)
                       /\ pc' = "aggregate"
                       /\ UNCHANGED << error, response >>
                       /\ handler_calls' = Append(handler_calls, HandlerCall("run_cloudtrail_checks", "returned"))
    /\ UNCHANGED << all_controls, frameworks, framework_scores, critical_findings,
                    iam_report, s3_report, ec2_report, s3_output,
                    overall_score, scanned, put_calls >>
    /\ UNCHANGED << risk_level, answers, local_write, api_calls >>

\* lines 143-213: the findings are combined, counted, scored and classified and
\* the report is built; get_caller_identity and context.invoked_function_arn,
\* read while the report is built, may raise.
Aggregate ==
    /\ pc = "aggregate"
    /\ LET controls == CombineControls(iam_report, s3_report, ec2_report, cloudtrail_report)
       IN  /\ all_controls' = controls
           /\ overall_score' = OverallScore(controls)
           /\ framework_scores' = calculate_framework_scores(controls)
           /\ IF ClassifierKeyError(controls)
              THEN /\ Caught("KeyError")
                   /\ UNCHANGED << critical_findings, risk_level >>
              ELSE /\ critical_findings' = identify_critical_findings(controls)
                   /\ \E sts \in {"ok", "exception"}, arn \in {"ok", "AttributeError"} :
                        CASE sts = "exception" ->
                                Caught("GetCallerIdentityError") /\ UNCHANGED risk_level
                          [] sts = "ok" /\ arn = "AttributeError" ->
                                Caught("AttributeError") /\ UNCHANGED risk_level
                          [] OTHER ->
                                /\ risk_level' = RiskLevel(overall_score')
                                /\ pc' = "put"
                                /\ UNCHANGED << error, response >>
    /\ UNCHANGED << frameworks, iam_report, s3_report, ec2_report, cloudtrail_report,
                    s3_output, scanned, put_calls >>
    /\ UNCHANGED << answers, local_write, api_calls, handler_calls >>

\* PutObject going on to the success response when the write failed.
PutObjectFailureIgnored ==
    /\ pc = "put"
    /\ put_calls' = put_calls + 1
    /\ \E ok \in BOOLEAN :
        IF ok
        THEN /\ pc' = "return"
             /\ UNCHANGED << error, response >>
             /\ handler_calls' = Append(handler_calls, HandlerCall("put_object", "returned"))
        ELSE /\ pc' = "return"
             /\ error' = "PutObjectError"
             /\ UNCHANGED response
             /\ handler_calls' = Append(handler_calls, HandlerCall("put_object", "raised"))
    /\ UNCHANGED << all_controls, frameworks, framework_scores, critical_findings,
                    iam_report, s3_report, ec2_report, cloudtrail_report, s3_output,
                    overall_score, scanned >>
    /\ UNCHANGED << risk_level, answers, local_write, api_calls >>

\* PutObject attempting the write again after it failed.
PutObjectRetried ==
    /\ pc = "put"
    /\ put_calls' = put_calls + 1
    /\ \E ok \in BOOLEAN :
        IF ok
        THEN /\ pc' = "return"
             /\ UNCHANGED << error, response >>
             /\ handler_calls' = Append(handler_calls, HandlerCall("put_object", "returned"))
        ELSE /\ pc' = "put"
             /\ UNCHANGED << error, response >>
             /\ handler_calls' = Append(handler_calls, HandlerCall("put_object", "raised"))
    /\ UNCHANGED << all_controls, frameworks, framework_scores, critical_findings,
                    iam_report, s3_report, ec2_report, cloudtrail_report, s3_output,
                    overall_score, scanned >>
    /\ UNCHANGED << risk_level, answers, local_write, api_calls >>

\* lines 216-228
PutObject ==
    /\ pc = "put"
    /\ put_calls' = put_calls + 1
    /\ \E ok \in BOOLEAN :
        IF ok
        THEN /\ pc' = "return"
             /\ UNCHANGED << error, response >>
             /\ handler_calls' = Append(handler_calls, HandlerCall("put_object", "returned"))
        ELSE /\ Caught("PutObjectError")
             /\ handler_calls' = Append(handler_calls, HandlerCall("put_object", "raised"))
    /\ UNCHANGED << all_controls, frameworks, framework_scores, critical_findings,
                    iam_report, s3_report, ec2_report, cloudtrail_report, s3_output,
                    overall_score, scanned >>
    /\ UNCHANGED << risk_level, answers, local_write, api_calls >>

\* ReturnSuccess answering 500 when one of the checkers gave no report.
ReturnFailureWhenDegraded ==
    /\ pc = "return"
    /\ response' = IF None \in {iam_report, s3_report, ec2_report, cloudtrail_report}
                   THEN [statusCode |-> 500, error |-> "MissingReport"]
                   ELSE [statusCode |-> 200,
                         overall_score |-> overall_score,
                         total_checks |-> Len(all_controls),
                         passed |-> CountStatus(all_controls, "passed"),
                         failed |-> CountStatus(all_controls, "failed"),
                         warnings |-> CountStatus(all_controls, "warning"),
                         critical_findings |-> Len(critical_findings)]
    /\ pc' = "done"
    /\ UNCHANGED << all_controls, frameworks, framework_scores, critical_findings,
                    iam_report, s3_report, ec2_report, cloudtrail_report, s3_output,
                    overall_score, scanned, put_calls, error >>
    /\ UNCHANGED << risk_level, answers, local_write, api_calls, handler_calls >>

\* lines 230-247
ReturnSuccess ==
    /\ pc = "return"
    /\ response' = [statusCode |-> 200,
                    overall_score |-> overall_score,
                    total_checks |-> Len(all_controls),
                    passed |-> CountStatus(all_controls, "passed"),
                    failed |-> CountStatus(all_controls, "failed"),
                    warnings |-> CountStatus(all_controls, "warning"),
                    critical_findings |-> Len(critical_findings)]
    /\ pc' = "done"
    /\ UNCHANGED << all_controls, frameworks, framework_scores, critical_findings,
                    iam_report, s3_report, ec2_report, cloudtrail_report, s3_output,
                    overall_score, scanned, put_calls, error >>
    /\ UNCHANGED << risk_level, answers, local_write, api_calls, handler_calls >>

Next ==
    \/ CreateClient
    \/ RunIAM
    \/ RunS3
    \/ RunEC2
    \/ RunCloudTrail
    \/ Aggregate
    \/ PutObject
    \/ ReturnSuccess

Spec == Init /\ [][Next]_vars

(***************************************************************************)
(* The Scorer and the Classifier as functions of their input: every        *)
(* sequence of at most MaxLen findings of the Catalog.  The Catalog holds   *)
(* findings the checkers produce and the dict shapes the Scorer's          *)
(* `.get(...)` defaults provide for.                                       *)
(***************************************************************************)
Catalog ==
    << check_mfa_enabled("mfa_disabled"),
       check_root_account_usage("2024-01-01"),
       check_users_with_console_access("alice_without_mfa"),
       check_single_security_group(GroupIds[1], ClosedGroup)[2],
       check_single_bucket(BucketNames[1], DeniedBucket)[1],
       check_cloudtrail_enabled("ok", <<>>)[1],
       check_password_policy("strong"),
       \* 'frameworks': []
       [control_id |-> <<"X-001">>, control_name |-> "No frameworks", status |-> "passed",
        frameworks |-> PyList(<<>>), framework |-> "SOC 2",
        details |-> "Encryption enabled"],
       \* only the primary 'framework'
       [control_id |-> <<"X-002">>, control_name |-> "Primary only", status |-> "failed",
        framework |-> "HIPAA", details |-> "No encryption configured"],
       \* 'frameworks' is a str
       [control_id |-> <<"X-003">>, control_name |-> "Frameworks as str",
        status |-> "warning", frameworks |-> PyStr("GDPR"), framework |-> "GDPR",
        details |-> "No logging configured"],
       \* neither 'frameworks' nor 'framework'
       [control_id |-> <<"X-004">>, control_name |-> "No framework at all",
        status |-> "failed", details |-> "Versioning is Disabled"],
       \* no 'status'
       [control_id |-> <<"X-005">>, control_name |-> "No status",
        frameworks |-> PyList(<<"SOC 2">>), framework |-> "SOC 2",
        details |-> "Logging to logs"],
       check_single_security_group(GroupIds[1], OpenGroup)[1] >>

InitScorer ==
    /\ pc = "input"
    /\ \E n \in 0..MaxLen :
        \E pick \in [1..n -> 1..Len(Catalog)] :
            all_controls = [i \in 1..n |-> Catalog[pick[i]]]
    /\ frameworks = <<>>
    /\ framework_scores = <<>>
    /\ critical_findings = <<>>
    /\ iam_report = None
    /\ s3_report = None
    /\ ec2_report = None
    /\ cloudtrail_report = None
    /\ s3_output = None
    /\ overall_score = 0
    /\ scanned = 0
    /\ put_calls = 0
    /\ error = NoError
    /\ response = None
    /\ risk_level = "None"
    /\ answers = None
    /\ local_write = "none"
    /\ api_calls = <<>>
    /\ handler_calls = <<>>

ScorerCall ==
    /\ pc = "input"
    /\ framework_scores' = calculate_framework_scores(all_controls)
    /\ pc' = "scored"
    /\ UNCHANGED << all_controls, frameworks, critical_findings,
                    iam_report, s3_report, ec2_report, cloudtrail_report, s3_output,
                    overall_score, scanned, put_calls, error,
                    response >>
    /\ UNCHANGED << risk_level, answers, local_write, api_calls, handler_calls >>

ClassifierCall ==
    /\ pc = "scored"
    /\ IF ClassifierKeyError(all_controls)
       THEN /\ error' = "KeyError"
            /\ pc' = "raised"
            /\ UNCHANGED critical_findings
       ELSE /\ critical_findings' = identify_critical_findings(all_controls)
            /\ pc' = "classified"
            /\ UNCHANGED error
    /\ UNCHANGED << all_controls, frameworks, framework_scores,
                    iam_report, s3_report, ec2_report, cloudtrail_report, s3_output,
                    overall_score, scanned, put_calls, response >>
    /\ UNCHANGED << risk_level, answers, local_write, api_calls, handler_calls >>

NextScorer == ScorerCall \/ ClassifierCall

SpecScorer == InitScorer /\ [][NextScorer]_vars

(***************************************************************************)
(* The Scorer's loop, one control per step, on long inputs: the controls   *)
(* are consumed one at a time into the `frameworks` dict, and the scores   *)
(* are computed when the input ends.  At most MaxScanned controls, at most *)
(* MaxPassed of them passed.                                               *)
(***************************************************************************)
LongInputControls == << Catalog[4], Catalog[5] >>

PassedSoFar(fws) ==
    IF fws = <<>> THEN 0
    ELSE CHOOSE m \in {fws[i].passed : i \in 1..Len(fws)} :
            \A i \in 1..Len(fws) : fws[i].passed <= m

InitLoop ==
    /\ pc = "loop"
    /\ all_controls = <<>>
    /\ frameworks = <<>>
    /\ framework_scores = <<>>
    /\ critical_findings = <<>>
    /\ iam_report = None
    /\ s3_report = None
    /\ ec2_report = None
    /\ cloudtrail_report = None
    /\ s3_output = None
    /\ overall_score = 0
    /\ scanned = 0
    /\ put_calls = 0
    /\ error = NoError
    /\ response = None
    /\ risk_level = "None"
    /\ answers = None
    /\ local_write = "none"
    /\ api_calls = <<>>
    /\ handler_calls = <<>>

\* lines 21-49, one iteration
LoopStep ==
    /\ pc = "loop"
    /\ scanned < MaxScanned
    /\ \E k \in 1..Len(LongInputControls) :
        LET control == LongInputControls[k]
        IN  /\ ControlStatus(control) = "passed" => PassedSoFar(frameworks) < MaxPassed
            /\ frameworks' = CountControl(frameworks, ControlFrameworks(control),
                                          ControlStatus(control))
    /\ scanned' = scanned + 1
    /\ UNCHANGED << pc, all_controls, framework_scores, critical_findings,
                    iam_report, s3_report, ec2_report, cloudtrail_report, s3_output,
                    overall_score, put_calls, error, response >>
    /\ UNCHANGED << risk_level, answers, local_write, api_calls, handler_calls >>

\* lines 51-63, when the input is exhausted
LoopEnd ==
    /\ pc = "loop"
    /\ framework_scores' = ScoreTallies(frameworks)
    /\ pc' = "scored"
    /\ UNCHANGED << all_controls, frameworks, critical_findings,
                    iam_report, s3_report, ec2_report, cloudtrail_report, s3_output,
                    overall_score, scanned, put_calls, error,
                    response >>
    /\ UNCHANGED << risk_level, answers, local_write, api_calls, handler_calls >>

NextLoop == LoopStep \/ LoopEnd

SpecLoop == InitLoop /\ [][NextLoop]_vars

(***************************************************************************)
(* The Aggregator as a function of the four reports: each absent, an empty *)
(* dict, a dict without 'controls', or a report of at most MaxControls      *)
(* findings.                                                               *)
(***************************************************************************)
ReportFindings == << Catalog[1], Catalog[2] >>

ReportInputs ==
    << None, EmptyDict, [total_checks |-> 0] >>

InitAggregator ==
    /\ pc = "reports"
    /\ \E n1 \in 0..MaxControls, n2 \in 0..MaxControls,
          n3 \in 0..MaxControls, n4 \in 0..MaxControls :
        \E p1 \in [1..n1 -> 1..Len(ReportFindings)], p2 \in [1..n2 -> 1..Len(ReportFindings)],
           p3 \in [1..n3 -> 1..Len(ReportFindings)], p4 \in [1..n4 -> 1..Len(ReportFindings)] :
            \E a1 \in 0..Len(ReportInputs), a2 \in 0..Len(ReportInputs),
               a3 \in 0..Len(ReportInputs), a4 \in 0..Len(ReportInputs) :
                /\ a1 > 0 => n1 = 0
                /\ a2 > 0 => n2 = 0
                /\ a3 > 0 => n3 = 0
                /\ a4 > 0 => n4 = 0
                /\ iam_report = IF a1 > 0 THEN ReportInputs[a1]
                                ELSE [controls |-> [i \in 1..n1 |-> ReportFindings[p1[i]]]]
                /\ s3_report = IF a2 > 0 THEN ReportInputs[a2]
                               ELSE [controls |-> [i \in 1..n2 |-> ReportFindings[p2[i]]]]
                /\ ec2_report = IF a3 > 0 THEN ReportInputs[a3]
                                ELSE [controls |-> [i \in 1..n3 |-> ReportFindings[p3[i]]]]
                /\ cloudtrail_report = IF a4 > 0 THEN ReportInputs[a4]
                                       ELSE [controls |-> [i \in 1..n4 |-> ReportFindings[p4[i]]]]
    /\ all_controls = <<>>
    /\ frameworks = <<>>
    /\ framework_scores = <<>>
    /\ critical_findings = <<>>
    /\ s3_output = None
    /\ overall_score = 0
    /\ scanned = 0
    /\ put_calls = 0
    /\ error = NoError
    /\ response = None
    /\ risk_level = "None"
    /\ answers = None
    /\ local_write = "none"
    /\ api_calls = <<>>
    /\ handler_calls = <<>>

\* lines 143-164
AggregatorCall ==
    /\ pc = "reports"
    /\ all_controls' = CombineControls(iam_report, s3_report, ec2_report, cloudtrail_report)
    /\ overall_score' = OverallScore(all_controls')
    /\ pc' = "combined"
    /\ UNCHANGED << frameworks, framework_scores, critical_findings,
                    iam_report, s3_report, ec2_report, cloudtrail_report, s3_output,
                    scanned, put_calls, error, response >>
    /\ UNCHANGED << risk_level, answers, local_write, api_calls, handler_calls >>

NextAggregator == AggregatorCall

SpecAggregator == InitAggregator /\ [][NextAggregator]_vars

(***************************************************************************)
(* The risk level as a function of the overall score: every number of      *)
(* hundredths from 0.00 to 100.00, the values round(passed/total*100, 2)   *)
(* can take.                                                               *)
(***************************************************************************)
Scores == 0..10000

InitRisk ==
    /\ pc = "statistics"
    /\ all_controls = <<>>
    /\ frameworks = <<>>
    /\ framework_scores = <<>>
    /\ critical_findings = <<>>
    /\ iam_report = None
    /\ s3_report = None
    /\ ec2_report = None
    /\ cloudtrail_report = None
    /\ s3_output = None
    /\ overall_score = 0
    /\ scanned = 0
    /\ put_calls = 0
    /\ error = NoError
    /\ response = None
    /\ risk_level = "None"
    /\ answers = None
    /\ local_write = "none"
    /\ api_calls = <<>>
    /\ handler_calls = <<>>

\* lines 164 and 196-203
SummaryCall ==
    /\ pc = "statistics"
    /\ \E score \in Scores :
        /\ overall_score' = score
        /\ risk_level' = RiskLevel(score)
    /\ pc' = "summary"
    /\ UNCHANGED << all_controls, frameworks, framework_scores, critical_findings,
                    iam_report, s3_report, ec2_report, cloudtrail_report, s3_output,
                    scanned, put_calls, error, response >>
    /\ UNCHANGED << answers, local_write, api_calls, handler_calls >>

NextRisk == SummaryCall

SpecRisk == InitRisk /\ [][NextRisk]_vars

(***************************************************************************)
(* Each checker run on its own, as its module's main() runs it, on every   *)
(* answer of its API calls and every outcome of its local file write.     *)
(* answers, local_write and api_calls record what the environment did.    *)
(***************************************************************************)
InitCheckers ==
    /\ pc = "checker"
    /\ all_controls = <<>>
    /\ frameworks = <<>>
    /\ framework_scores = <<>>
    /\ critical_findings = <<>>
    /\ iam_report = None
    /\ s3_report = None
    /\ ec2_report = None
    /\ cloudtrail_report = None
    /\ s3_output = None
    /\ overall_score = 0
    /\ scanned = 0
    /\ put_calls = 0
    /\ error = NoError
    /\ response = None
    /\ risk_level = "None"
    /\ answers = None
    /\ local_write = "none"
    /\ api_calls = <<>>
    /\ handler_calls = <<>>

\* run_iam_compliance_checks()
IamCheckerCall ==
    /\ pc = "checker"
    /\ \E mfa \in MfaAnswers, root \in RootAnswers,
          users \in UserAnswers, policy \in PolicyAnswers, write \in LocalWrites :
        LET results == IamResults(mfa, root, users, policy)
        IN  /\ answers' = [checker |-> "iam", mfa |-> mfa, root |-> root,
                           users |-> users, policy |-> policy]
            /\ api_calls' = IamCalls(mfa, root, users, policy)
            /\ local_write' = IF Len(results) = 0 THEN "none" ELSE write
            /\ IF IamRaised(results, write) # NoError
               THEN /\ error' = IamRaised(results, write)
                    /\ pc' = "raised"
                    /\ UNCHANGED iam_report
               ELSE /\ iam_report' = IamOutput(results)
                    /\ pc' = "returned"
                    /\ UNCHANGED error
    /\ UNCHANGED << all_controls, frameworks, framework_scores, critical_findings,
                    s3_report, ec2_report, cloudtrail_report, s3_output,
                    overall_score, scanned, put_calls, response, risk_level,
                    handler_calls >>

\* run_s3_compliance_checks()
S3CheckerCall ==
    /\ pc = "checker"
    /\ \E answer \in {"ok", "exception"}, n \in 0..MaxBuckets, write \in LocalWrites :
        \E configs \in [1..n -> BucketConfigs] :
            /\ answer = "exception" => n = 0
            /\ answers' = [checker |-> "s3", answer |-> answer, configs |-> configs]
            /\ api_calls' = S3Calls(answer, configs)
            /\ local_write' = IF answer = "exception" \/ n = 0 THEN "none" ELSE write
            /\ s3_output' = S3LocalOutput(answer, configs)
            /\ s3_report' = run_s3_compliance_checks(answer, configs)
    /\ pc' = "returned"
    /\ UNCHANGED << all_controls, frameworks, framework_scores, critical_findings,
                    iam_report, ec2_report, cloudtrail_report,
                    overall_score, scanned, put_calls, error, response, risk_level,
                    handler_calls >>

\* run_ec2_security_group_checks()
Ec2CheckerCall ==
    /\ pc = "checker"
    /\ \E answer \in {"ok", "exception"}, n \in 0..MaxGroups, write \in LocalWrites :
        \E groups \in [1..n -> GroupConfigs] :
            /\ answer = "exception" => n = 0
            /\ answers' = [checker |-> "ec2", answer |-> answer, groups |-> groups]
            /\ api_calls' = Ec2Calls(answer)
            /\ local_write' = IF answer = "exception" \/ n = 0 THEN "none" ELSE write
            /\ ec2_report' = run_ec2_security_group_checks(answer, groups, write)
    /\ pc' = "returned"
    /\ UNCHANGED << all_controls, frameworks, framework_scores, critical_findings,
                    iam_report, s3_report, cloudtrail_report, s3_output,
                    overall_score, scanned, put_calls, error, response, risk_level,
                    handler_calls >>

\* run_cloudtrail_checks()
CloudTrailCheckerCall ==
    /\ pc = "checker"
    /\ \E answer \in {"ok", "exception"}, n \in 0..MaxTrails, write \in LocalWrites :
        \E trails \in [1..n -> TrailConfigs] :
            /\ answer = "exception" => n = 0
            /\ answers' = [checker |-> "cloudtrail", answer |-> answer, trails |-> trails]
            /\ api_calls' = CloudTrailCalls(answer, trails)
            /\ local_write' = write
            /\ IF CloudTrailRaised(write) # NoError
               THEN /\ error' = CloudTrailRaised(write)
                    /\ pc' = "raised"
                    /\ UNCHANGED cloudtrail_report
               ELSE /\ cloudtrail_report' = run_cloudtrail_checks(answer, trails)
                    /\ pc' = "returned"
                    /\ UNCHANGED error
    /\ UNCHANGED << all_controls, frameworks, framework_scores, critical_findings,
                    iam_report, s3_report, ec2_report, s3_output,
                    overall_score, scanned, put_calls, response, risk_level,
                    handler_calls >>

NextCheckers ==
    \/ IamCheckerCall
    \/ S3CheckerCall
    \/ Ec2CheckerCall
    \/ CloudTrailCheckerCall

SpecCheckers == InitCheckers /\ [][NextCheckers]_vars

(***************************************************************************)
(* Properties.                                                             *)
(***************************************************************************)
Scored == pc \in {"scored", "classified", "raised"}

FwSet(control) ==
    {ControlFrameworks(control)[j] : j \in 1..Len(ControlFrameworks(control))}

InputNames == UNION {FwSet(all_controls[i]) : i \in 1..Len(all_controls)}

CountedFor(f, status) ==
    Cardinality({i \in 1..Len(all_controls) :
                    /\ f \in FwSet(all_controls[i])
                    /\ ControlStatus(all_controls[i]) = status})

TotalFor(f) ==
    Cardinality({i \in 1..Len(all_controls) : f \in FwSet(all_controls[i])})

\* C1: after calculate_framework_scores, there is exactly one tally for each
\* framework name that occurs in some finding's framework set and none for any
\* other name, and the tally of f has total = the number of findings whose set
\* contains f, and passed / failed / warnings = the number of those with status
\* passed / failed / warning.
C1_TalliesCount ==
    Scored =>
        /\ \A f \in InputNames :
              Cardinality({k \in 1..Len(framework_scores) : framework_scores[k].name = f}) = 1
        /\ \A k \in 1..Len(framework_scores) :
              LET t == framework_scores[k]
              IN  /\ t.name \in InputNames
                  /\ t.total = TotalFor(t.name)
                  /\ t.passed = CountedFor(t.name, "passed")
                  /\ t.failed = CountedFor(t.name, "failed")
                  /\ t.warnings = CountedFor(t.name, "warning")

C1_Witness ==
    /\ pc = "scored"
    /\ Len(all_controls) = 3
    /\ \E k \in 1..Len(framework_scores) :
          /\ framework_scores[k].total = 3
          /\ framework_scores[k].passed = 1
          /\ framework_scores[k].failed = 1
          /\ framework_scores[k].warnings = 0
    /\ \E k \in 1..Len(framework_scores) : framework_scores[k].total = 1

\* C2, as the code has it: every tally's score lies in 0..100; it is 0 when
\* total = 0 or passed = 0, it is above 0 when passed >= 1 and
\* total < 20000 * passed, and it is 0 again when total > 20000 * passed
\* (passed / total * 100 is then below 0.005 and rounds to 0.0).
C2_ScoreRange ==
    pc = "scored" =>
        \A k \in 1..Len(framework_scores) :
            LET t == framework_scores[k]
            IN  /\ 0 <= t.score /\ t.score <= 10000
                /\ (t.total = 0 \/ t.passed = 0) => t.score = 0
                /\ (t.passed >= 1 /\ t.total < 20000 * t.passed) => t.score > 0
                /\ t.total > 20000 * t.passed => t.score = 0

C2_Witness ==
    /\ pc = "scored"
    /\ \E k \in 1..Len(framework_scores) :
          /\ framework_scores[k].passed = 1
          /\ framework_scores[k].total = 19999
          /\ framework_scores[k].score = 1

\* C2 as claimed: score = 0 if and only if total = 0 or passed = 0.
C2_ZeroIffNothingPassed ==
    pc = "scored" =>
        \A k \in 1..Len(framework_scores) :
            LET t == framework_scores[k]
            IN  /\ 0 <= t.score /\ t.score <= 10000
                /\ t.score = 0 <=> (t.total = 0 \/ t.passed = 0)

\* The (finding, framework) pairs in the order the Scorer's loops visit them.
RECURSIVE VisitOrder(_)
VisitOrder(controls) ==
    IF controls = <<>>
    THEN <<>>
    ELSE ControlFrameworks(Head(controls)) \o VisitOrder(Tail(controls))

FirstSeen(f) ==
    CHOOSE i \in 1..Len(VisitOrder(all_controls)) :
        /\ VisitOrder(all_controls)[i] = f
        /\ \A j \in 1..(i - 1) : VisitOrder(all_controls)[j] # f

\* C3: the tallies are ordered by score, highest first, and two tallies of
\* equal score are in the order in which their frameworks were first met.
C3_SortedStable ==
    Scored =>
        \A i, j \in 1..Len(framework_scores) :
            i < j =>
                /\ framework_scores[i].score >= framework_scores[j].score
                /\ framework_scores[i].score = framework_scores[j].score
                      => FirstSeen(framework_scores[i].name)
                            < FirstSeen(framework_scores[j].name)

C3_Witness ==
    /\ pc = "scored"
    /\ \E i, j \in 1..Len(framework_scores) :
          /\ i < j
          /\ framework_scores[i].score = framework_scores[j].score
    /\ \E i, j \in 1..Len(framework_scores) :
          /\ i < j
          /\ framework_scores[i].score > framework_scores[j].score
          /\ FirstSeen(framework_scores[i].name) > FirstSeen(framework_scores[j].name)

InputWithId(id, status) ==
    Cardinality({i \in 1..Len(all_controls) :
                    /\ all_controls[i].control_id = id
                    /\ all_controls[i].status = status})

CriticalWithId(id) ==
    Cardinality({k \in 1..Len(critical_findings) : critical_findings[k].control_id = id})

\* C4: identify_critical_findings returns one critical finding for each
\* failed input finding (same control_id and details) and none for a finding
\* of any other status, whatever its details say.
C4_OnlyFailed ==
    pc = "classified" =>
        /\ Len(critical_findings) =
              Cardinality({i \in 1..Len(all_controls) : all_controls[i].status = "failed"})
        /\ \A i \in 1..Len(all_controls) :
              CriticalWithId(all_controls[i].control_id)
                  = InputWithId(all_controls[i].control_id, "failed")
        /\ \A k \in 1..Len(critical_findings) :
              \E i \in 1..Len(all_controls) :
                  /\ all_controls[i].status = "failed"
                  /\ all_controls[i].control_id = critical_findings[k].control_id
                  /\ all_controls[i].details = critical_findings[k].details

C4_Witness ==
    /\ pc = "classified"
    /\ Len(critical_findings) = 1
    /\ \E i \in 1..Len(all_controls) :
          /\ all_controls[i].status = "warning"
          /\ all_controls[i].details = "Root account was used on 2024-01-01"
    /\ \E i \in 1..Len(all_controls) : all_controls[i].status = "passed"

\* The keyword occurs in the text at some offset, letters compared without case.
OccursIgnoringCase(text, keyword) ==
    \E off \in 0..(Len(text) - Len(keyword)) :
        \A j \in 1..Len(keyword) : LowerChar(text[off + j]) = keyword[j]

\* C5: a critical finding's severity is high exactly when its details,
\* lower-cased, contain one of the seven keywords, and medium otherwise.
C5_Severity ==
    pc = "classified" =>
        \A k \in 1..Len(critical_findings) :
            LET f == critical_findings[k]
                has == \E w \in 1..Len(critical_keywords) :
                          OccursIgnoringCase(Chars(f.details), critical_keywords[w])
            IN  /\ f.severity \in {"high", "medium"}
                /\ f.severity = "high" <=> has

C5_Witness ==
    /\ pc = "classified"
    /\ \E k \in 1..Len(critical_findings) :
          /\ critical_findings[k].severity = "high"
          /\ critical_findings[k].details
                = "No CloudTrail trails exist - audit logging is disabled"
    /\ \E k \in 1..Len(critical_findings) :
          /\ critical_findings[k].severity = "medium"
          /\ critical_findings[k].details = "1 users without MFA: alice"

\* The control_ids of the failed input findings, in input order, whose
\* control_id is classified with the given severity.
RECURSIVE FailedIdsOfSeverity(_, _)
FailedIdsOfSeverity(controls, severity) ==
    IF controls = <<>>
    THEN <<>>
    ELSE LET c == Head(controls)
             mine == /\ c.status = "failed"
                     /\ \E k \in 1..Len(critical_findings) :
                           /\ critical_findings[k].control_id = c.control_id
                           /\ critical_findings[k].severity = severity
         IN  (IF mine THEN << c.control_id >> ELSE <<>>)
                \o FailedIdsOfSeverity(Tail(controls), severity)

CriticalIds == [k \in 1..Len(critical_findings) |-> critical_findings[k].control_id]

\* C6: every high finding precedes every medium finding, and within each
\* severity the findings are in the order of the input.
C6_StablePartition ==
    pc = "classified" =>
        /\ \A i, j \in 1..Len(critical_findings) :
              i < j => ~(/\ critical_findings[i].severity = "medium"
                         /\ critical_findings[j].severity = "high")
        /\ CriticalIds = FailedIdsOfSeverity(all_controls, "high")
                            \o FailedIdsOfSeverity(all_controls, "medium")

C6_Witness ==
    /\ pc = "classified"
    /\ Len(all_controls) = 3
    /\ all_controls[1].control_id = <<"IAM-003">>
    /\ all_controls[2].control_id = <<"IAM-001">>
    /\ all_controls[3].control_id = <<"EC2-SG-001", "sg-1">>
    /\ CriticalIds = << <<"IAM-001">>, <<"IAM-003">>, <<"EC2-SG-001", "sg-1">> >>

ControlsOf(report) == IF "controls" \in DOMAIN report THEN report.controls ELSE <<>>

Succeeded == pc = "done" /\ response # None /\ response.statusCode = 200

InDetailedControls(finding) ==
    \E j \in 1..Len(comprehensive_report.detailed_controls) :
        comprehensive_report.detailed_controls[j] = finding

\* C8: in a scan that completes successfully, every finding each checker
\* produced is in the report's detailed_controls; so are the four findings per
\* bucket when the S3 checker got through its buckets without error.
C8_EveryFindingReported ==
    Succeeded =>
        /\ \A r \in {iam_report, ec2_report, cloudtrail_report} :
              \A i \in 1..Len(ControlsOf(r)) : InDetailedControls(r.controls[i])
        /\ s3_output # None =>
              /\ s3_output.total_checks = 4 * s3_output.total_buckets
              /\ \A i \in 1..Len(s3_output.controls) :
                    InDetailedControls(s3_output.controls[i])

\* C9: no finding is dropped without notice: a finding with no framework at
\* all is counted under 'Unknown' (the Scorer has no way to reject), so every
\* input finding is in the total of at least one returned tally.
C9_NoFindingDropped ==
    Scored =>
        \A i \in 1..Len(all_controls) :
            \/ /\ FwSet(all_controls[i]) # {}
               /\ \E k \in 1..Len(framework_scores) :
                     /\ framework_scores[k].name \in FwSet(all_controls[i])
                     /\ framework_scores[k].total >= 1
            \/ /\ FwSet(all_controls[i]) = {}
               /\ \E k \in 1..Len(framework_scores) :
                     /\ framework_scores[k].name = "Unknown"
                     /\ framework_scores[k].total >=
                           Cardinality({j \in 1..Len(all_controls) :
                                           FwSet(all_controls[j]) = {}})

FindingsProduced ==
    Len(ControlsOf(iam_report)) + Len(ControlsOf(s3_output))
        + Len(ControlsOf(ec2_report)) + Len(ControlsOf(cloudtrail_report))

\* C10: the overall score is passed / total * 100 rounded to 2 decimals over
\* the aggregated findings, and a scan whose checkers produced no finding
\* ends with overall_score 0 and without an error.
C10_ZeroFindingsNoError ==
    pc = "done" =>
        /\ response.statusCode = 200 =>
              LET total == Len(all_controls)
                  passed == CountStatus(all_controls, "passed")
              IN  /\ total = 0 => response.overall_score = 0
                  /\ total > 0 =>
                        /\ 2 * (total * response.overall_score - 10000 * passed) <= total
                        /\ 2 * (10000 * passed - total * response.overall_score) <= total
        /\ FindingsProduced = 0 =>
              /\ response.statusCode = 200
              /\ response.overall_score = 0

\* C11: the risk level of the executive summary is LOW exactly when
\* overall_score >= 80, MEDIUM exactly when 60 <= overall_score < 80 and HIGH
\* exactly when overall_score < 60.
C11_RiskLevelBoundaries ==
    pc = "summary" =>
        /\ risk_level \in {"LOW", "MEDIUM", "HIGH"}
        /\ risk_level = "LOW" <=> overall_score >= 8000
        /\ risk_level = "MEDIUM" <=> (6000 <= overall_score /\ overall_score < 8000)
        /\ risk_level = "HIGH" <=> overall_score < 6000

C11_Witness ==
    /\ pc = "summary"
    /\ overall_score = 7999
    /\ comprehensive_report.executive_summary.risk_level = "MEDIUM"

\* The failures of the top-level orchestration: building the report from the
\* aggregated findings and writing it.
OrchestrationFailures ==
    {"KeyError", "GetCallerIdentityError", "AttributeError", "PutObjectError"}

\* C12: failures of individual checks are isolated: whatever checks fail to
\* complete, all four checkers are run, and the handler answers 500 only when
\* the orchestration itself (aggregation, report, primary write) fails.
C12_CheckFailuresIsolated ==
    pc = "done" =>
        /\ cloudtrail_report # None
        /\ response.statusCode = 500 => error \in OrchestrationFailures

\* put_object was called and returned
WriteSucceeded == pc \in {"return", "done"} /\ put_calls = 1 /\ error = NoError

Reports == << iam_report, s3_report, ec2_report, cloudtrail_report >>

ReportLen(report) == IF report # None THEN Len(report.controls) ELSE 0

\* C13: a degraded report is a success: when the primary write succeeded, the
\* report holds nothing for a checker whose report is absent and every
\* finding of the other checkers, and the handler answers 200.
C13_DegradedReportSucceeds ==
    WriteSucceeded =>
        /\ \A k \in 1..Len(Reports) :
              Reports[k] # None =>
                 \A i \in 1..Len(Reports[k].controls) :
                    InDetailedControls(Reports[k].controls[i])
        /\ Len(comprehensive_report.detailed_controls) =
              ReportLen(iam_report) + ReportLen(s3_report)
                 + ReportLen(ec2_report) + ReportLen(cloudtrail_report)
        /\ pc = "done" =>
              /\ response.statusCode = 200
              /\ response.total_checks = Len(comprehensive_report.detailed_controls)

C13_Witness ==
    /\ pc = "done"
    /\ response.statusCode = 200
    /\ ec2_report = None
    /\ iam_report # None
    /\ cloudtrail_report # None
    /\ response.total_checks = Len(iam_report.controls) + Len(cloudtrail_report.controls)
    /\ response.total_checks > 1

\* C14: when put_object fails the handler answers 500 with the error message
\* in the body, and a 200 answer is given only when no exception was raised.
C14_WriteFailureReported ==
    /\ error = "PutObjectError" =>
          /\ pc = "done"
          /\ response.statusCode = 500
          /\ response.error = "PutObjectError"
    /\ (response # None /\ response.statusCode = 200) => error = NoError

C14_Witness ==
    /\ pc = "done"
    /\ put_calls = 1
    /\ error = "PutObjectError"
    /\ response.statusCode = 500
    /\ Len(all_controls) > 0

\* C15: every invocation of lambda_handler ends by returning a response whose
\* status code is 200 or 500; no exception leaves the handler.
C15_AlwaysResponds ==
    /\ pc # "raised"
    /\ pc = "done" => (response # None /\ response.statusCode \in {200, 500})

\* C16: a failed local file write is silent: a checker that got as far as the
\* write returns, and returns the report its API answers determine, the same
\* whether the write was skipped, done or failed.
C16_LocalWriteSilent ==
    (pc \in {"returned", "raised"} /\ local_write # "none") =>
        /\ pc = "returned"
        /\ error = NoError
        /\ answers.checker = "iam" =>
              iam_report = IamOutput(IamResults(answers.mfa, answers.root,
                                                answers.users, answers.policy))
        /\ answers.checker = "ec2" => ec2_report = Ec2Output(answers.groups)
        /\ answers.checker = "cloudtrail" =>
              cloudtrail_report = run_cloudtrail_checks(answers.answer, answers.trails)

C16_Witness ==
    /\ pc = "returned"
    /\ local_write = "failed"
    /\ answers.checker = "ec2"
    /\ ec2_report # None
    /\ Len(ec2_report.controls) = 2

Statuses == {"passed", "failed", "warning", "error"}

\* what the four checkers built: the reports returned and the S3 checker's output
CheckerOutputs == {iam_report, s3_output, ec2_report, cloudtrail_report} \ {None}

\* C17: every finding a checker produces, whatever its API calls answered,
\* has a status, and the status is passed, failed, warning or error.
C17_StatusClosedSet ==
    \A output \in CheckerOutputs :
        \A i \in 1..Len(output.controls) :
            /\ "status" \in DOMAIN output.controls[i]
            /\ output.controls[i].status \in Statuses

C17_Witness ==
    /\ pc = "returned"
    /\ s3_output # None
    /\ Len(s3_output.controls) = 4
    /\ \E i \in 1..Len(s3_output.controls) : s3_output.controls[i].status = "error"
    /\ api_calls[2].outcome = "failed"

CheckerDone == pc \in {"returned", "raised"}

CallFailed(name) ==
    \E i \in 1..Len(api_calls) : api_calls[i].call = name /\ api_calls[i].outcome = "failed"

SomeCallFailed == \E i \in 1..Len(api_calls) : api_calls[i].outcome = "failed"

\* what the checker that ran hands to its caller
Contribution ==
    CASE answers.checker = "iam" -> ControlsOf(iam_report)
      [] answers.checker = "s3" -> ControlsOf(s3_report)
      [] answers.checker = "ec2" -> ControlsOf(ec2_report)
      [] answers.checker = "cloudtrail" -> ControlsOf(cloudtrail_report)

OneErrorFinding(controls) == Len(controls) = 1 /\ controls[1].status = "error"

NoRetry ==
    \A i, j \in 1..Len(api_calls) :
        (api_calls[i].call = api_calls[j].call
            /\ api_calls[i].resource = api_calls[j].resource) => i = j

IamCheckCalls ==
    << <<"IAM-001", {"get_account_summary"}>>,
       <<"IAM-002", {"get_credential_report"}>>,
       <<"IAM-003", {"list_users", "get_login_profile", "list_mfa_devices"}>>,
       <<"IAM-004", {"get_account_password_policy"}>> >>

\* the call each finding of a bucket depends on, in the order of the findings
BucketCheckCalls ==
    << "get_bucket_encryption", "get_public_access_block",
       "get_bucket_versioning", "get_bucket_logging" >>

HasControl(controls, id) == \E i \in 1..Len(controls) : controls[i].control_id = id

ResolvedFrameworks(control) ==
    CASE "frameworks" \in DOMAIN control /\ control.frameworks.type = "list" ->
            {control.frameworks.value[j] : j \in 1..Len(control.frameworks.value)}
      [] "frameworks" \in DOMAIN control /\ control.frameworks.type = "str" ->
            {control.frameworks.value}
      [] "frameworks" \notin DOMAIN control /\ "framework" \in DOMAIN control ->
            {control.framework}
      [] OTHER -> {"Unknown"}

TallyTotal(f) ==
    IF \E k \in 1..Len(framework_scores) : framework_scores[k].name = f
    THEN framework_scores[CHOOSE k \in 1..Len(framework_scores) :
                              framework_scores[k].name = f].total
    ELSE 0

\* C19: a finding with a 'frameworks' collection is counted for exactly the
\* frameworks in it, one with only a primary 'framework' or with a string for
\* 'frameworks' for exactly that one, one with neither for exactly 'Unknown':
\* each framework's total is the number of findings that resolve to it.
C19_FrameworkResolution ==
    Scored =>
        \A f \in {framework_scores[k].name : k \in 1..Len(framework_scores)}
                 \cup UNION {ResolvedFrameworks(all_controls[i]) : i \in 1..Len(all_controls)}
                 \cup {"Unknown"} :
            TallyTotal(f) =
                Cardinality({i \in 1..Len(all_controls) :
                                f \in ResolvedFrameworks(all_controls[i])})

C19_Witness ==
    /\ pc = "scored"
    /\ Len(all_controls) = 3
    /\ \E i \in 1..3 : /\ "frameworks" \notin DOMAIN all_controls[i]
                        /\ "framework" \in DOMAIN all_controls[i]
    /\ \E i \in 1..3 : /\ "frameworks" \in DOMAIN all_controls[i]
                        /\ all_controls[i].frameworks.type = "str"
    /\ \E i \in 1..3 : /\ "frameworks" \notin DOMAIN all_controls[i]
                        /\ "framework" \notin DOMAIN all_controls[i]
    /\ TallyTotal("HIPAA") = 1
    /\ TallyTotal("GDPR") = 1
    /\ TallyTotal("Unknown") = 1

\* the input in another order
Permuted(controls, p) == [i \in 1..Len(controls) |-> controls[p[i]]]

Orders == Permutations(1..Len(all_controls))

TallySet(scores) == {scores[k] : k \in 1..Len(scores)}

\* C20 as the spec words it: the Scorer returns the same tally sequence for
\* every permutation of its input.
C20_SameSequenceForEveryOrder ==
    pc = "scored" =>
        \A p \in Orders :
            calculate_framework_scores(Permuted(all_controls, p)) = framework_scores

\* C20: for every permutation of the input the Scorer returns the same
\* tallies (names, counts, scores) and the same sequence of scores; the order
\* of tallies of equal score follows the input.
C20_SameTalliesForEveryOrder ==
    pc = "scored" =>
        \A p \in Orders :
            LET permuted == calculate_framework_scores(Permuted(all_controls, p))
            IN  /\ TallySet(permuted) = TallySet(framework_scores)
                /\ Len(permuted) = Len(framework_scores)
                /\ \A k \in 1..Len(permuted) : permuted[k].score = framework_scores[k].score

C20_Witness ==
    /\ pc = "scored"
    /\ Len(all_controls) = 2
    /\ Len(framework_scores) = 2
    /\ framework_scores[1].score = framework_scores[2].score
    /\ \E p \in Orders :
          LET permuted == calculate_framework_scores(Permuted(all_controls, p))
          IN  /\ permuted # framework_scores
              /\ permuted[1] = framework_scores[2]
              /\ permuted[2] = framework_scores[1]

\* The statuses the Scorer has a bucket for.
Bucketed == {"passed", "failed", "warning"}

\* The findings counted for framework f whose status has no bucket.
Unbucketed(f) ==
    {i \in 1..Len(all_controls) :
        /\ f \in FwSet(all_controls[i])
        /\ ControlStatus(all_controls[i]) \notin Bucketed}

\* C21: in every framework tally passed + failed + warnings <= total, with
\* equality exactly when no finding counted for the framework has status error
\* or another status without a bucket; each such finding raises total by one
\* and no bucket, and the score is passed over that total, so it is never above
\* the score over the three buckets alone.
C21_BucketsWithinTotal ==
    Scored =>
        \A k \in 1..Len(framework_scores) :
            LET t == framework_scores[k]
                buckets == t.passed + t.failed + t.warnings
            IN  /\ buckets <= t.total
                /\ buckets = t.total <=> Unbucketed(t.name) = {}
                /\ t.total - buckets = Cardinality(Unbucketed(t.name))
                /\ t.score = Round2(t.passed, t.total)
                /\ buckets > 0 => t.score <= Round2(t.passed, buckets)

C21_Witness ==
    /\ pc = "scored"
    /\ \E k \in 1..Len(framework_scores) :
          LET t == framework_scores[k]
          IN  /\ t.passed = 1
              /\ t.failed = 0
              /\ t.warnings = 0
              /\ t.total = 2
              /\ t.score = 5000
              /\ \E i \in Unbucketed(t.name) : ControlStatus(all_controls[i]) = "error"
    /\ \E k \in 1..Len(framework_scores) :
          /\ framework_scores[k].total >= 1
          /\ framework_scores[k].failed + framework_scores[k].warnings
                = framework_scores[k].total

\* The calls of lambda_handler's try block, in the order of the code.
HandlerSteps ==
    << "run_iam_compliance_checks", "run_s3_compliance_checks",
       "run_ec2_security_group_checks", "run_cloudtrail_checks", "put_object" >>

PutAttempts ==
    Cardinality({i \in 1..Len(handler_calls) : handler_calls[i].call = "put_object"})

\* C22: within one invocation the calls made so far are a prefix of IAM, S3,
\* EC2, CloudTrail, put_object, each call made only after every earlier one
\* returned; put_object is attempted at most once and only after the four
\* checkers returned; and the response is 200 only when that write returned.
C22_FixedStepOrder ==
    /\ Len(handler_calls) <= Len(HandlerSteps)
    /\ \A i \in 1..Len(handler_calls) :
          /\ handler_calls[i].call = HandlerSteps[i]
          /\ i < Len(handler_calls) => handler_calls[i].outcome = "returned"
    /\ PutAttempts <= 1
    /\ PutAttempts = put_calls
    /\ pc \in {"iam", "s3", "ec2", "cloudtrail", "aggregate", "put"} =>
          /\ \A i \in 1..Len(handler_calls) : handler_calls[i].outcome = "returned"
          /\ pc = "iam" => Len(handler_calls) = 0
          /\ pc = "s3" => Len(handler_calls) = 1
          /\ pc = "ec2" => Len(handler_calls) = 2
          /\ pc = "cloudtrail" => Len(handler_calls) = 3
          /\ pc \in {"aggregate", "put"} => Len(handler_calls) = 4
    /\ ("statusCode" \in DOMAIN response /\ response.statusCode = 200) =>
          /\ Len(handler_calls) = 5
          /\ handler_calls[5] = HandlerCall("put_object", "returned")

C22_Witness ==
    /\ pc = "done"
    /\ response.statusCode = 200
    /\ Len(handler_calls) = 5
    /\ \A i \in 1..5 : handler_calls[i] = HandlerCall(HandlerSteps[i], "returned")
    /\ put_calls = 1
    /\ ec2_report = None
    /\ iam_report # None

====
